---- MODULE Spec2Model ----
(***************************************************************************)
(* Model of src/add-to-project.ts: one run of addToProject, the async      *)
(* function that filters the triggering issue/PR by label, resolves the    *)
(* project from its URL, adds the content to the project (as an item or a  *)
(* draft), sets a single-select field and assigns the latest iteration.    *)
(*                                                                         *)
(* Strings that the code inspects (labels, operator, URL, owner names,     *)
(* start dates) are TLA+ strings handled character by character.  Opaque   *)
(* identifiers returned by the GraphQL API are strings that are only       *)
(* compared for equality; "undefined" stands for the JavaScript value      *)
(* undefined and "null" for a null that the code goes on to throw on.      *)
(***************************************************************************)
EXTENDS Integers, Sequences, FiniteSets, TLC

(***************************************************************************)
(* Bounds and input universes.                                             *)
(***************************************************************************)

\* Longest iterations list the iteration lookup returns in the model.
MaxIterations == 2

\* Longest owner kind handed to mustGetOwnerTypeQuery on its own.
MaxOwnerTypeLen == 5

\* Characters of the owner kinds handed to mustGetOwnerTypeQuery on its own.
OwnerTypeChars == {"o", "r", "g", "s", "u", "e"}

\* An absent JavaScript value, and a null the code throws on.
Undefined == "undefined"
Null == "null"

\* Raw values of the `labeled` input (comma separated, untrimmed, any case).
LabeledInputs == {"", "bug", "Bug, feat", " ,FEAT,"}

\* Raw values of the `label-operator` input.
LabelOperatorInputs == {"and", " NOT ", "or", ""}

\* Label names of the triggering issue / pull request, as in the payload.
IssueLabelNames == {<< >>, <<"BUG">>, <<"bug", "Feat">>}

\* Values of the `project-url` input.
ProjectUrls ==
  { "https://github.com/orgs/acme/projects/12",
    "github.com/users/bob/projects/7/views/1",
    "https://github.com/teams/acme/projects/1",
    "https://github.com/orgs/acme/project/1" }

\* Logins of the repository owner in the payload.
IssueOwnerNames == {"acme", "Acme"}

\* The `field-name` and `field-option` inputs, the content node id and URL.
FieldName == "Status"
FieldOptionName == "Todo"
ContentId == "content1"
HtmlUrl == "https://github.com/acme/repo/issues/1"

\* Identifiers the remote API may return.
ProjectIds == {"P1", "P2"}
ItemIds == {"I1", "I2"}
FieldIds == {"F1"}
IterationFieldIds == {"G1"}

\* Option lists the field lookup may return (name match is exact).
OptionLists ==
  { << >>,
    <<[id |-> "O1", name |-> "todo"], [id |-> "O2", name |-> "Todo"]>>,
    <<[id |-> "O3", name |-> "Todo"], [id |-> "O4", name |-> "Todo"]>>,
    <<[id |-> "O5", name |-> "Done"]>>,
    <<[id |-> "O6", name |-> "todo"]>> }

\* Start dates an iteration may carry.  The last one is not zero padded, so
\* string order and calendar order differ on it.
StartDates == {"2024-02-01", "2024-10-01", "2024-9-01"}

(***************************************************************************)
(* String helpers: what the JavaScript string methods do.                  *)
(***************************************************************************)

CharAt(s, i) == SubSeq(s, i, i)

\* String.prototype.toLowerCase on one character.
LowerChar(c) ==
  CASE c = "A" -> "a" [] c = "B" -> "b" [] c = "C" -> "c" [] c = "D" -> "d"
    [] c = "E" -> "e" [] c = "F" -> "f" [] c = "G" -> "g" [] c = "H" -> "h"
    [] c = "I" -> "i" [] c = "J" -> "j" [] c = "K" -> "k" [] c = "L" -> "l"
    [] c = "M" -> "m" [] c = "N" -> "n" [] c = "O" -> "o" [] c = "P" -> "p"
    [] c = "Q" -> "q" [] c = "R" -> "r" [] c = "S" -> "s" [] c = "T" -> "t"
    [] c = "U" -> "u" [] c = "V" -> "v" [] c = "W" -> "w" [] c = "X" -> "x"
    [] c = "Y" -> "y" [] c = "Z" -> "z" [] OTHER -> c

RECURSIVE toLowerCase(_)
toLowerCase(s) ==
  IF s = "" THEN "" ELSE LowerChar(Head(s)) \o toLowerCase(Tail(s))

RECURSIVE trimStart(_)
trimStart(s) ==
  IF s # "" /\ Head(s) = " " THEN trimStart(Tail(s)) ELSE s

RECURSIVE trimEnd(_)
trimEnd(s) ==
  IF s # "" /\ CharAt(s, Len(s)) = " "
  THEN trimEnd(SubSeq(s, 1, Len(s) - 1))
  ELSE s

\* String.prototype.trim
trim(s) == trimEnd(trimStart(s))

\* String.prototype.split(','): the pieces between commas, "" included.
RECURSIVE splitFrom(_, _)
splitFrom(s, piece) ==
  IF s = "" THEN <<piece>>
  ELSE IF Head(s) = "," THEN <<piece>> \o splitFrom(Tail(s), "")
  ELSE splitFrom(Tail(s), piece \o Head(s))

split(s) == splitFrom(s, "")

\* Array.prototype.filter(l => l.length > 0)
RECURSIVE filterNonEmpty(_)
filterNonEmpty(q) ==
  IF q = << >> THEN << >>
  ELSE IF Len(Head(q)) > 0 THEN <<Head(q)>> \o filterNonEmpty(Tail(q))
  ELSE filterNonEmpty(Tail(q))

\* Array.prototype.includes
includes(q, x) == \E i \in 1..Len(q) : q[i] = x

\* const labeled = getInput('labeled').split(',').map(trim+lower).filter(..)
ParseLabeled(input) ==
  LET pieces == split(input)
  IN filterNonEmpty([i \in 1..Len(pieces) |-> toLowerCase(trim(pieces[i]))])

\* const labelOperator = getInput('label-operator').trim().toLocaleLowerCase()
ParseLabelOperator(input) == toLowerCase(trim(input))

\* const issueLabels = (issue?.labels ?? []).map(l => l.name.toLowerCase())
ParseIssueLabels(names) == [i \in 1..Len(names) |-> toLowerCase(names[i])]

(***************************************************************************)
(* The label filter.                                                       *)
(***************************************************************************)

\* Mutant of AndPasses: `some` where the code has `every`.
AndPassesSome(labeled, issueLabels) ==
  \E i \in 1..Len(labeled) : includes(issueLabels, labeled[i])

\* labelOperator === 'and': labeled.every(l => issueLabels.includes(l))
AndPasses(labeled, issueLabels) ==
  \A i \in 1..Len(labeled) : includes(issueLabels, labeled[i])

\* Mutant of NotPasses: the emptiness guard inverted.
NotPassesNoGuard(labeled, issueLabels) ==
  ~(Len(labeled) = 0 /\
    \E i \in 1..Len(issueLabels) : includes(labeled, issueLabels[i]))

\* labelOperator === 'not':
\*   !(labeled.length > 0 && issueLabels.some(l => labeled.includes(l)))
NotPasses(labeled, issueLabels) ==
  ~(Len(labeled) > 0 /\
    \E i \in 1..Len(issueLabels) : includes(labeled, issueLabels[i]))

\* Mutant of OrPasses: the emptiness guard dropped.
OrPassesNoGuard(labeled, issueLabels) ==
  \E i \in 1..Len(issueLabels) : includes(labeled, issueLabels[i])

\* otherwise:
\*   !(labeled.length > 0 && !issueLabels.some(l => labeled.includes(l)))
OrPasses(labeled, issueLabels) ==
  ~(Len(labeled) > 0 /\
    ~(\E i \in 1..Len(issueLabels) : includes(labeled, issueLabels[i])))

\* The if / else-if / else chain on labelOperator.
LabelFilterPasses(labelOperator, labeled, issueLabels) ==
  IF labelOperator = "and" THEN AndPasses(labeled, issueLabels)
  ELSE IF labelOperator = "not" THEN NotPasses(labeled, issueLabels)
  ELSE OrPasses(labeled, issueLabels)

(***************************************************************************)
(* Project URL parsing.                                                    *)
(***************************************************************************)

StartsWith(s, p) == Len(s) >= Len(p) /\ SubSeq(s, 1, Len(p)) = p

Drop(s, n) == SubSeq(s, n + 1, Len(s))

IsDigit(c) == c \in {"0", "1", "2", "3", "4", "5", "6", "7", "8", "9"}

DigitValue(c) ==
  CASE c = "0" -> 0 [] c = "1" -> 1 [] c = "2" -> 2 [] c = "3" -> 3
    [] c = "4" -> 4 [] c = "5" -> 5 [] c = "6" -> 6 [] c = "7" -> 7
    [] c = "8" -> 8 [] c = "9" -> 9

\* Longest prefix of s made of characters other than '/'  ([^/]+).
RECURSIVE TakeNonSlash(_)
TakeNonSlash(s) ==
  IF s = "" \/ Head(s) = "/" THEN "" ELSE Head(s) \o TakeNonSlash(Tail(s))

\* Longest prefix of s made of digits  (\d+).
RECURSIVE TakeDigits(_)
TakeDigits(s) ==
  IF s = "" \/ ~IsDigit(Head(s)) THEN "" ELSE Head(s) \o TakeDigits(Tail(s))

\* parseInt(digits, 10) on a string of decimal digits.
RECURSIVE parseInt(_)
parseInt(digits) ==
  IF digits = "" THEN 0
  ELSE 10 * parseInt(SubSeq(digits, 1, Len(digits) - 1))
       + DigitValue(CharAt(digits, Len(digits)))

NoMatch ==
  [matched |-> FALSE, ownerType |-> Undefined, ownerName |-> Undefined,
   projectNumber |-> ""]

\* projectUrl.match(urlParse) with
\* /^(?:https:\/\/)?github\.com\/(?<ownerType>orgs|users)\/
\*   (?<ownerName>[^/]+)\/projects\/(?<projectNumber>\d+)/
urlParse(url) ==
  LET s0 == IF StartsWith(url, "https://") THEN Drop(url, 8) ELSE url
      s1 == Drop(s0, Len("github.com/"))
      ownerType == IF StartsWith(s1, "orgs") THEN "orgs"
                   ELSE IF StartsWith(s1, "users") THEN "users"
                   ELSE ""
      s2 == Drop(s1, Len(ownerType) + 1)
      ownerName == TakeNonSlash(s2)
      s3 == Drop(s2, Len(ownerName))
      s4 == Drop(s3, Len("/projects/"))
      digits == TakeDigits(s4)
  IN IF /\ StartsWith(s0, "github.com/")
        /\ ownerType # "" /\ StartsWith(s1, ownerType \o "/")
        /\ ownerName # ""
        /\ StartsWith(s3, "/projects/")
        /\ digits # ""
     THEN [matched |-> TRUE, ownerType |-> ownerType,
           ownerName |-> ownerName, projectNumber |-> digits]
     ELSE NoMatch

\* Mutant of mustGetOwnerTypeQuery: every kind but orgs is taken for a user.
mustGetOwnerTypeQueryDefaultUser(ownerType) ==
  IF ownerType = "orgs" THEN "organization" ELSE "user"

\* mustGetOwnerTypeQuery: the query root for an owner kind, Null where the
\* function throws `Unsupported ownerType`.
mustGetOwnerTypeQuery(ownerType) ==
  IF ownerType = "orgs" THEN "organization"
  ELSE IF ownerType = "users" THEN "user"
  ELSE Null

(***************************************************************************)
(* Iteration selection.                                                    *)
(***************************************************************************)

\* UTF-16 code unit of the characters that occur in start dates.
CodeUnit(c) == IF c = "-" THEN 45 ELSE 48 + DigitValue(c)

\* JavaScript a > b on strings: lexicographic order of the code units, a
\* proper prefix being smaller.
RECURSIVE StringGreater(_, _)
StringGreater(a, b) ==
  IF a = "" THEN FALSE
  ELSE IF b = "" THEN TRUE
  ELSE IF Head(a) = Head(b) THEN StringGreater(Tail(a), Tail(b))
  ELSE CodeUnit(Head(a)) > CodeUnit(Head(b))

\* Mutant of LaterIteration: the comparison reversed.
LaterIterationReversed(previous, current) ==
  IF StringGreater(current.startDate, previous.startDate)
  THEN previous ELSE current

\* Mutant of LaterIteration: >= where the code has >.
LaterIterationOrEqual(previous, current) ==
  IF ~StringGreater(current.startDate, previous.startDate)
  THEN previous ELSE current

\* (previous, current) =>
\*    previous.startDate > current.startDate ? previous : current
LaterIteration(previous, current) ==
  IF StringGreater(previous.startDate, current.startDate)
  THEN previous ELSE current

\* Array.prototype.reduce without an initial value, on a non-empty list:
\* the accumulator starts as the first element.
RECURSIVE reduceFrom(_, _, _)
reduceFrom(iterations, i, previous) ==
  IF i > Len(iterations) THEN previous
  ELSE reduceFrom(iterations, i + 1, LaterIteration(previous, iterations[i]))

reduce(iterations) == reduceFrom(iterations, 2, iterations[1])

(***************************************************************************)
(* Responses of the GraphQL API.  An optional node is a sequence: << >>    *)
(* for an absent or null node, <<v>> for a node v.                         *)
(***************************************************************************)

None == << >>
Some(v) == <<v>>

\* ProjectNodeIDResponse for a query on the given root: the other root is
\* absent; the queried root is absent, or carries no project, or an id.
ProjectNodeIDResponses(root) ==
  LET nodes == {None, Some([projectV2 |-> None])}
                 \cup {Some([projectV2 |-> Some([id |-> p])]) : p \in ProjectIds}
  IN {[organization |-> IF root = "organization" THEN n ELSE None,
       user |-> IF root = "user" THEN n ELSE None] : n \in nodes}

\* ProjectAddItemResponse / ProjectV2AddDraftIssueResponse /
\* ProjectV2UpdateItemFieldValueResponse: the item node with its id.
ItemResponses == {None} \cup {Some([id |-> i]) : i \in ItemIds}

\* ProjectV2GetFieldAndOptionResponse: node.field with id and options.
FieldAndOptionResponses ==
  {[field |-> None]}
    \cup {[field |-> Some([id |-> f, options |-> o])] :
            f \in FieldIds, o \in OptionLists}

\* Iterations lists: the i-th iteration has the id ITi.
IterationLists ==
  UNION {{[i \in 1..n |-> [id |-> "IT" \o ToString(i), startDate |-> d[i]]] :
            d \in [1..n -> StartDates]} : n \in 0..MaxIterations}

\* ProjectV2GetIterationResponse: node.field with id and iterations.
IterationResponses ==
  {[field |-> None]}
    \cup {[field |-> Some([id |-> g, iterations |-> l])] :
            g \in IterationFieldIds, l \in IterationLists}

\* Mutant of findOptionId: the names compared without regard to case.
RECURSIVE findOptionIdIgnoreCase(_, _)
findOptionIdIgnoreCase(options, name) ==
  IF options = << >> THEN Undefined
  ELSE IF toLowerCase(Head(options).name) = toLowerCase(name)
  THEN Head(options).id
  ELSE findOptionIdIgnoreCase(Tail(options), name)

\* options.find(option => option.name === fieldOptionName)?.id
RECURSIVE findOptionId(_, _)
findOptionId(options, name) ==
  IF options = << >> THEN Undefined
  ELSE IF Head(options).name = name THEN Head(options).id
  ELSE findOptionId(Tail(options), name)

(***************************************************************************)
(* State of one run.                                                       *)
(***************************************************************************)

VARIABLES
  projectUrl,        \* input project-url
  labeledInput,      \* input labeled
  labelOperatorInput,\* input label-operator
  issueLabelNames,   \* payload: names of the labels of the issue / PR
  issueOwnerName,    \* payload: repository.owner.login
  pc,                \* where the run stands
  error,             \* what ended the run in "failed", else "none"
  ownerType,         \* local ownerType
  ownerTypeQuery,    \* local ownerTypeQuery
  projectOwnerName,  \* local projectOwnerName
  projectId,         \* local projectId
  createdItem,       \* local createdItem
  options,           \* the options list the field lookup returned
  iterations,        \* the iterations list the iteration lookup returned
  output,            \* the itemId output, Undefined while not set
  calls,             \* the GraphQL calls issued, in order
  replies            \* the outcome of each completed call, in order

inputs ==
  <<projectUrl, labeledInput, labelOperatorInput, issueLabelNames,
    issueOwnerName>>

locals ==
  <<ownerType, ownerTypeQuery, projectOwnerName, projectId, createdItem>>

vars ==
  <<inputs, pc, error, locals, options, iterations, output, calls, replies>>

labeled == ParseLabeled(labeledInput)
labelOperator == ParseLabelOperator(labelOperatorInput)
issueLabels == ParseIssueLabels(issueLabelNames)

Awaiting ==
  {"awaitGetProject", "awaitAddItem", "awaitAddDraft", "awaitGetField",
   "awaitColumnMove", "awaitGetIteration", "awaitIterationMove"}

Terminal == {"skipped", "done", "failed"}

Init ==
  /\ projectUrl \in ProjectUrls
  /\ labeledInput \in LabeledInputs
  /\ labelOperatorInput \in LabelOperatorInputs
  /\ issueLabelNames \in IssueLabelNames
  /\ issueOwnerName \in IssueOwnerNames
  /\ pc = "start"
  /\ error = "none"
  /\ ownerType = Undefined
  /\ ownerTypeQuery = Undefined
  /\ projectOwnerName = Undefined
  /\ projectId = Undefined
  /\ createdItem = ""
  /\ options = << >>
  /\ iterations = << >>
  /\ output = Undefined
  /\ calls = << >>
  /\ replies = << >>

\* A thrown error leaves addToProject: nothing after the throw runs.
Throw(kind) ==
  /\ pc' = "failed"
  /\ error' = kind

\* octokit.graphql(...) is called and awaited.
Issue(op, args, next) ==
  /\ calls' = Append(calls, [op |-> op, args |-> args])
  /\ pc' = next
  /\ error' = error

\* The awaited call returned ("returned", the item id when a mutation
\* returned one, Null when a lookup returned no field node) or was rejected.
Reply(outcome) == replies' = Append(replies, outcome)

(***************************************************************************)
(* The steps of addToProject: each runs from one await to the next.        *)
(***************************************************************************)

\* Mutant of LabelFilter: the `return` of the skip branches is missing.
LabelFilterNoReturn ==
  /\ pc = "start"
  /\ pc' = "parseUrl"
  /\ UNCHANGED <<inputs, error, locals, options, iterations, output, calls,
                 replies>>

\* Mutant of LabelFilter: the project URL is matched before the labels are
\* looked at.
LabelFilterUrlFirst ==
  /\ pc = "start"
  /\ IF ~urlParse(projectUrl).matched
     THEN Throw("InvalidProjectUrl")
     ELSE /\ pc' = IF LabelFilterPasses(labelOperator, labeled, issueLabels)
                   THEN "parseUrl" ELSE "skipped"
          /\ error' = error
  /\ UNCHANGED <<inputs, locals, options, iterations, output, calls, replies>>

\* The label filter: skip (log and return) or go on.  labeled and
\* issueLabels are computed once, before the filter looks at them.
LabelFilter ==
  /\ pc = "start"
  /\ \E l \in {labeled}, il \in {issueLabels} :
       pc' = IF LabelFilterPasses(labelOperator, l, il)
             THEN "parseUrl" ELSE "skipped"
  /\ UNCHANGED <<inputs, error, locals, options, iterations, output, calls,
                 replies>>

\* Mutant of ProjectLocator: the project query is sent before the URL match
\* is checked.
ProjectLocatorCallFirst ==
  /\ pc = "parseUrl"
  /\ LET urlMatch == urlParse(projectUrl)
         query == mustGetOwnerTypeQuery(urlMatch.ownerType)
     IN /\ calls' = Append(calls,
             [op |-> "getProject",
              args |-> [ownerTypeQuery |-> query,
                        projectOwnerName |-> urlMatch.ownerName,
                        projectNumber |-> parseInt(urlMatch.projectNumber)]])
        /\ IF ~urlMatch.matched
           THEN /\ Throw("InvalidProjectUrl")
                /\ UNCHANGED <<ownerType, ownerTypeQuery, projectOwnerName>>
           ELSE /\ pc' = "awaitGetProject"
                /\ error' = error
                /\ ownerType' = urlMatch.ownerType
                /\ ownerTypeQuery' = query
                /\ projectOwnerName' = urlMatch.ownerName
  /\ UNCHANGED <<inputs, projectId, createdItem, options, iterations, output,
                 replies>>

\* Parse the project URL, map the owner kind, send the project query.
ProjectLocator ==
  /\ pc = "parseUrl"
  /\ LET urlMatch == urlParse(projectUrl)
         query == mustGetOwnerTypeQuery(urlMatch.ownerType)
     IN IF ~urlMatch.matched
        THEN /\ Throw("InvalidProjectUrl")
             /\ UNCHANGED <<ownerType, ownerTypeQuery, projectOwnerName, calls>>
        ELSE IF query = Null
        THEN /\ Throw("UnsupportedOwnerType")
             /\ UNCHANGED <<ownerType, ownerTypeQuery, projectOwnerName, calls>>
        ELSE /\ ownerType' = urlMatch.ownerType
             /\ ownerTypeQuery' = query
             /\ projectOwnerName' = urlMatch.ownerName
             /\ Issue("getProject",
                      [ownerTypeQuery |-> query,
                       projectOwnerName |-> urlMatch.ownerName,
                       projectNumber |-> parseInt(urlMatch.projectNumber)],
                      "awaitGetProject")
  /\ UNCHANGED <<inputs, projectId, createdItem, options, iterations, output,
                 replies>>

\* Mutant of SameOwner: the logins compared without regard to case.
SameOwnerIgnoreCase(issueOwner, projectOwner) ==
  toLowerCase(issueOwner) = toLowerCase(projectOwner)

\* issueOwnerName === projectOwnerName
SameOwner(issueOwner, projectOwner) == issueOwner = projectOwner

\* idResp[ownerTypeQuery]?.projectV2.id: Undefined when the root is absent,
\* Null where reading .id of a null projectV2 throws a TypeError.
ProjectIdOf(idResp, root) ==
  LET node == idResp[root]
  IN IF node = None THEN Undefined
     ELSE IF Head(node).projectV2 = None THEN Null
     ELSE Head(Head(node).projectV2).id

\* The project query returned: read the project id, then add the content
\* as an item (same owner) or as a draft issue.
GetProjectReturn ==
  /\ pc = "awaitGetProject"
  /\ \E idResp \in ProjectNodeIDResponses(ownerTypeQuery) :
       LET id == ProjectIdOf(idResp, ownerTypeQuery)
       IN IF id = Null
          THEN /\ Throw("TypeError")
               /\ UNCHANGED <<projectId, calls>>
          ELSE /\ projectId' = id
               /\ IF SameOwner(issueOwnerName, projectOwnerName)
                  THEN Issue("addProjectV2ItemById",
                             [projectId |-> id, contentId |-> ContentId],
                             "awaitAddItem")
                  ELSE Issue("addProjectV2DraftIssue",
                             [projectId |-> id, title |-> HtmlUrl],
                             "awaitAddDraft")
  /\ Reply("returned")
  /\ UNCHANGED <<inputs, ownerType, ownerTypeQuery, projectOwnerName,
                 createdItem, options, iterations, output>>

\* Mutant of IssueGetOptionField: the iteration query is sent in its place.
IssueGetIterationFirst ==
  Issue("getIteration", [projectId |-> projectId], "awaitGetField")

\* What follows both add mutations: the field and options query.
IssueGetOptionField ==
  Issue("getOptionField",
        [projectId |-> projectId, fieldName |-> FieldName],
        "awaitGetField")

\* Mutant of AddItemReturn: the `else` is missing, so the draft issue is
\* created as well.
AddItemReturnThenDraft ==
  /\ pc = "awaitAddItem"
  /\ \E addResp \in ItemResponses :
       IF addResp = None
       THEN /\ Throw("TypeError")
            /\ Reply("returned")
            /\ UNCHANGED <<output, createdItem, calls>>
       ELSE /\ output' = Head(addResp).id
            /\ createdItem' = Head(addResp).id
            /\ Reply(Head(addResp).id)
            /\ Issue("addProjectV2DraftIssue",
                     [projectId |-> projectId, title |-> HtmlUrl],
                     "awaitAddDraft")
  /\ UNCHANGED <<inputs, ownerType, ownerTypeQuery, projectOwnerName,
                 projectId, options, iterations>>

\* addProjectV2ItemById returned: publish the item id, keep it.
AddItemReturn ==
  /\ pc = "awaitAddItem"
  /\ \E addResp \in ItemResponses :
       IF addResp = None
       THEN /\ Throw("TypeError")
            /\ Reply("returned")
            /\ UNCHANGED <<output, createdItem, calls>>
       ELSE /\ output' = Head(addResp).id
            /\ createdItem' = Head(addResp).id
            /\ Reply(Head(addResp).id)
            /\ IssueGetOptionField
  /\ UNCHANGED <<inputs, ownerType, ownerTypeQuery, projectOwnerName,
                 projectId, options, iterations>>

\* addProjectV2DraftIssue returned: publish the item id, keep it.
AddDraftReturn ==
  /\ pc = "awaitAddDraft"
  /\ \E addResp \in ItemResponses :
       IF addResp = None
       THEN /\ Throw("TypeError")
            /\ Reply("returned")
            /\ UNCHANGED <<output, createdItem, calls>>
       ELSE /\ output' = Head(addResp).id
            /\ createdItem' = Head(addResp).id
            /\ Reply(Head(addResp).id)
            /\ IssueGetOptionField
  /\ UNCHANGED <<inputs, ownerType, ownerTypeQuery, projectOwnerName,
                 projectId, options, iterations>>

\* Mutant of GetFieldReturn: the field node is read with optional chaining,
\* so a missing field does not throw.
GetFieldReturnOptional ==
  /\ pc = "awaitGetField"
  /\ \E queryFieldResp \in FieldAndOptionResponses :
       IF queryFieldResp.field = None
       THEN /\ Reply(Null)
            /\ UNCHANGED options
            /\ Issue("addIssueToColumn",
                     [projectId |-> projectId,
                      itemId |-> createdItem,
                      fieldId |-> Undefined,
                      fieldOption |-> Undefined],
                     "awaitColumnMove")
       ELSE LET field == Head(queryFieldResp.field)
            IN /\ options' = field.options
               /\ Reply("returned")
               /\ Issue("addIssueToColumn",
                        [projectId |-> projectId,
                         itemId |-> createdItem,
                         fieldId |-> field.id,
                         fieldOption |->
                           findOptionId(field.options, FieldOptionName)],
                        "awaitColumnMove")
  /\ UNCHANGED <<inputs, locals, iterations, output>>

\* The field query returned: find the option, send the column mutation.
GetFieldReturn ==
  /\ pc = "awaitGetField"
  /\ \E queryFieldResp \in FieldAndOptionResponses :
       IF queryFieldResp.field = None
       THEN /\ Throw("TypeError")
            /\ Reply(Null)
            /\ UNCHANGED <<options, calls>>
       ELSE LET field == Head(queryFieldResp.field)
            IN /\ options' = field.options
               /\ Reply("returned")
               /\ Issue("addIssueToColumn",
                        [projectId |-> projectId,
                         itemId |-> createdItem,
                         fieldId |-> field.id,
                         fieldOption |->
                           findOptionId(field.options, FieldOptionName)],
                        "awaitColumnMove")
  /\ UNCHANGED <<inputs, locals, iterations, output>>

\* Mutant of ColumnMoveOutput: nothing new is published.
ColumnMoveOutputStale(published, created, returned) == published

\* core.setOutput('itemId', columnMoveResp...projectV2Item.id)
ColumnMoveOutput(published, created, returned) == returned

\* The column mutation returned: publish its item id, query the iterations.
ColumnMoveReturn ==
  /\ pc = "awaitColumnMove"
  /\ \E columnMoveResp \in ItemResponses :
       IF columnMoveResp = None
       THEN /\ Throw("TypeError")
            /\ Reply("returned")
            /\ UNCHANGED <<output, calls>>
       ELSE /\ output' = ColumnMoveOutput(output, createdItem,
                                          Head(columnMoveResp).id)
            /\ Reply(Head(columnMoveResp).id)
            /\ Issue("getIteration", [projectId |-> projectId],
                     "awaitGetIteration")
  /\ UNCHANGED <<inputs, locals, options, iterations>>

\* Mutant of IterationMoveItemId: the id published last is used.
IterationMoveItemIdPublished(created, published) == published

\* itemId: createdItem, the item the iteration mutation is applied to.
IterationMoveItemId(created, published) == created

\* Mutant of GetIterationReturn: the reduce is given an initial value, so an
\* empty list does not throw and yields no iteration id.
GetIterationReturnNoThrow ==
  /\ pc = "awaitGetIteration"
  /\ \E queryIterationResp \in IterationResponses :
       IF queryIterationResp.field = None
       THEN /\ Throw("TypeError")
            /\ Reply(Null)
            /\ UNCHANGED <<iterations, calls>>
       ELSE LET field == Head(queryIterationResp.field)
            IN /\ iterations' = field.iterations
               /\ Reply("returned")
               /\ Issue("addIssueToIteration",
                        [projectId |-> projectId,
                         itemId |-> createdItem,
                         fieldId |-> field.id,
                         iterationId |->
                           IF field.iterations = << >> THEN Undefined
                           ELSE reduce(field.iterations).id],
                        "awaitIterationMove")
  /\ UNCHANGED <<inputs, locals, options, output>>

\* The iteration query returned: pick the latest iteration, send the
\* iteration mutation.  reduce of an empty array throws a TypeError.
GetIterationReturn ==
  /\ pc = "awaitGetIteration"
  /\ \E queryIterationResp \in IterationResponses :
       IF queryIterationResp.field = None
       THEN /\ Throw("TypeError")
            /\ Reply(Null)
            /\ UNCHANGED <<iterations, calls>>
       ELSE LET field == Head(queryIterationResp.field)
            IN /\ iterations' = field.iterations
               /\ Reply("returned")
               /\ IF field.iterations = << >>
                  THEN /\ Throw("TypeError")
                       /\ UNCHANGED calls
                  ELSE Issue("addIssueToIteration",
                             [projectId |-> projectId,
                              itemId |->
                                IterationMoveItemId(createdItem, output),
                              fieldId |-> field.id,
                              iterationId |-> reduce(field.iterations).id],
                             "awaitIterationMove")
  /\ UNCHANGED <<inputs, locals, options, output>>

\* Mutant of IterationMoveReturn: after publishing, the function waits on
\* something that never settles.
IterationMoveReturnNoSettle ==
  /\ pc = "awaitIterationMove"
  /\ \E iterationMoveResp \in ItemResponses :
       IF iterationMoveResp = None
       THEN /\ Throw("TypeError")
            /\ Reply("returned")
            /\ UNCHANGED output
       ELSE /\ output' = Head(iterationMoveResp).id
            /\ Reply(Head(iterationMoveResp).id)
            /\ pc' = "published"
            /\ error' = error
  /\ UNCHANGED <<inputs, locals, options, iterations, calls>>

\* The iteration mutation returned: publish its item id; the run is over.
IterationMoveReturn ==
  /\ pc = "awaitIterationMove"
  /\ \E iterationMoveResp \in ItemResponses :
       IF iterationMoveResp = None
       THEN /\ Throw("TypeError")
            /\ Reply("returned")
            /\ UNCHANGED output
       ELSE /\ output' = Head(iterationMoveResp).id
            /\ Reply(Head(iterationMoveResp).id)
            /\ pc' = "done"
            /\ error' = error
  /\ UNCHANGED <<inputs, locals, options, iterations, calls>>

\* Mutant of GraphqlReject: the item added so far is deleted again.
GraphqlRejectWithRollback ==
  /\ pc \in Awaiting
  /\ Throw("GraphqlError")
  /\ Reply("rejected")
  /\ calls' = IF createdItem = "" THEN calls
              ELSE Append(calls,
                     [op |-> "deleteProjectV2Item",
                      args |-> [projectId |-> projectId,
                                itemId |-> createdItem]])
  /\ UNCHANGED <<inputs, locals, options, iterations, output>>

\* The awaited call is rejected (transport or GraphQL error): the error
\* leaves addToProject.
GraphqlReject ==
  /\ pc \in Awaiting
  /\ Throw("GraphqlError")
  /\ Reply("rejected")
  /\ UNCHANGED <<inputs, locals, options, iterations, output, calls>>

Next ==
  \/ LabelFilter
  \/ ProjectLocator
  \/ GetProjectReturn
  \/ AddItemReturn
  \/ AddDraftReturn
  \/ GetFieldReturn
  \/ ColumnMoveReturn
  \/ GetIterationReturn
  \/ IterationMoveReturn
  \/ GraphqlReject

Spec == Init /\ [][Next]_vars

\* The synchronous stretches of addToProject run to their end, and every
\* awaited call eventually returns or is rejected.
FairSpec == Spec /\ WF_vars(Next)

(***************************************************************************)
(* Vocabulary of the properties.                                           *)
(***************************************************************************)

\* The labels of a list, as a set.
LabelSet(q) == {q[i] : i \in 1..Len(q)}

\* The label filter has been evaluated.
FilterDecided == pc # "start"

\* The run went past the label filter.
Proceeded == pc \notin {"start", "skipped"}

AddOps == {"addProjectV2ItemById", "addProjectV2DraftIssue"}

Invoked(op) == \E i \in 1..Len(calls) : calls[i].op = op

\* The project lookup returned and a project id was read from it.
ProjectResolved == projectId \in ProjectIds

\* The item id returned by the most recent mutation that returned one.
RECURSIVE LastItemId(_)
LastItemId(r) ==
  IF r = << >> THEN Undefined
  ELSE IF r[Len(r)] \in ItemIds THEN r[Len(r)]
  ELSE LastItemId(SubSeq(r, 1, Len(r) - 1))

\* The iteration mutation has been sent.
IterationSent == Len(calls) = 6 /\ calls[6].op = "addIssueToIteration"

\* Position i of the iterations list carries a maximal start date.
IsMaxDate(i) ==
  \A j \in 1..Len(iterations) :
    ~StringGreater(iterations[j].startDate, iterations[i].startDate)

(***************************************************************************)
(* Properties.                                                             *)
(***************************************************************************)

\* C1: with label-operator `and`, the run goes past the label filter if and
\* only if every configured label is among the content's labels (an empty
\* `labeled` always proceeds); otherwise it skips.
AndProceedsIffSubset ==
  (FilterDecided /\ labelOperator = "and") =>
    /\ Proceeded <=> LabelSet(labeled) \subseteq LabelSet(issueLabels)
    /\ ~Proceeded => pc = "skipped"

AndProceedsWitness ==
  /\ labelOperator = "and"
  /\ pc = "parseUrl"
  /\ Len(labeled) = 2
  /\ LabelSet(labeled) \subseteq LabelSet(issueLabels)

\* C2: with label-operator `not`, the run goes past the label filter if and
\* only if `labeled` is empty or shares no label with the content;
\* otherwise it skips.
NotProceedsIffDisjoint ==
  (FilterDecided /\ labelOperator = "not") =>
    /\ Proceeded <=>
         \/ LabelSet(labeled) = {}
         \/ LabelSet(labeled) \cap LabelSet(issueLabels) = {}
    /\ ~Proceeded => pc = "skipped"

NotSkipsWitness ==
  /\ labelOperator = "not"
  /\ labelOperatorInput # "not"
  /\ pc = "skipped"
  /\ LabelSet(labeled) \cap LabelSet(issueLabels) # {}

\* C3: with any other label-operator (empty and `or` included), the run
\* goes past the label filter if and only if `labeled` is empty or at least
\* one configured label is among the content's labels; otherwise it skips.
DefaultProceedsIffIntersects ==
  (FilterDecided /\ labelOperator \notin {"and", "not"}) =>
    /\ Proceeded <=>
         \/ LabelSet(labeled) = {}
         \/ LabelSet(labeled) \cap LabelSet(issueLabels) # {}
    /\ ~Proceeded => pc = "skipped"

DefaultProceedsWitness ==
  /\ labelOperator = ""
  /\ pc = "parseUrl"
  /\ LabelSet(labeled) # {}
  /\ LabelSet(labeled) \cap LabelSet(issueLabels) # {}
  /\ ~(LabelSet(labeled) \subseteq LabelSet(issueLabels))

\* C4: when the label filter does not pass, the run is in the terminal skip
\* state from then on: no remote call was or is made, no error is raised
\* and the itemId output is never published.
SkipIsSilent ==
  (FilterDecided /\ ~LabelFilterPasses(labelOperator, labeled, issueLabels)) =>
    /\ pc = "skipped"
    /\ error = "none"
    /\ calls = << >>
    /\ replies = << >>
    /\ output = Undefined
    /\ ~ENABLED Next

SkipWitness ==
  /\ pc = "skipped"
  /\ labelOperator = "not"
  /\ labeled = <<"bug">>
  /\ includes(issueLabels, "bug")

\* C5: once the project lookup has succeeded, the add mutation is chosen by
\* exact equality of the content owner's login and the project owner name
\* of the URL: equal, addProjectV2ItemById is invoked with (projectId,
\* contentId) and addProjectV2DraftIssue never is; different,
\* addProjectV2DraftIssue is invoked with (projectId, title = content URL)
\* and addProjectV2ItemById never is.
ItemPathByOwner ==
  ProjectResolved =>
    /\ Len(calls) >= 2
    /\ IF issueOwnerName = urlParse(projectUrl).ownerName
       THEN /\ calls[2].op = "addProjectV2ItemById"
            /\ calls[2].args.projectId = projectId
            /\ calls[2].args.contentId = ContentId
            /\ ~Invoked("addProjectV2DraftIssue")
       ELSE /\ calls[2].op = "addProjectV2DraftIssue"
            /\ calls[2].args.projectId = projectId
            /\ calls[2].args.title = HtmlUrl
            /\ ~Invoked("addProjectV2ItemById")

ItemPathWitness ==
  /\ pc = "done"
  /\ issueOwnerName = "acme"
  /\ projectOwnerName = "acme"
  /\ calls[2].op = "addProjectV2ItemById"

\* C6: a configuration error (project URL not matching the pattern, or an
\* unsupported owner kind) ends the run as failed before any remote call:
\* no call has been issued in a run that ended with a configuration error.
ConfigErrorBeforeCalls ==
  error \in {"InvalidProjectUrl", "UnsupportedOwnerType"} =>
    /\ pc = "failed"
    /\ calls = << >>
    /\ replies = << >>

ConfigErrorWitness ==
  /\ pc = "failed"
  /\ error = "InvalidProjectUrl"
  /\ projectUrl = "https://github.com/teams/acme/projects/1"

\* C7: if the project lookup returns a result without a project identifier
\* under the owner-kind key, the run ends in failed and neither add
\* mutation is invoked.
MissingProjectFails ==
  (Len(replies) >= 1 /\ replies[1] = "returned" /\ ~ProjectResolved) =>
    /\ pc = "failed"
    /\ \A op \in AddOps : ~Invoked(op)

\* C8: at every point of every run the itemId output is unset while no
\* mutation has returned an item id, and otherwise is the item id returned
\* by the most recent mutation that did; in a run that reaches done it is
\* the id returned by the iteration mutation.
OutputIsLastMutationResult ==
  /\ output = LastItemId(replies)
  /\ pc = "done" =>
       /\ IterationSent
       /\ Len(replies) = 6
       /\ output = replies[6]

OutputWitness ==
  /\ pc = "done"
  /\ replies[2] = "I1"
  /\ replies[4] = "I2"
  /\ replies[6] = "I1"

\* C9: for every non-empty iterations list the iteration lookup returns,
\* the iteration id passed to the iteration mutation is the id of an
\* iteration of the list whose startDate is maximal under string
\* comparison.
SelectedIterationIsMax ==
  iterations # << >> =>
    /\ IterationSent
    /\ \E i \in 1..Len(iterations) :
         /\ iterations[i].id = calls[6].args.iterationId
         /\ IsMaxDate(i)

SelectedIterationWitness ==
  /\ IterationSent
  /\ Len(iterations) = 2
  /\ iterations[1].startDate = "2024-9-01"
  /\ iterations[2].startDate = "2024-10-01"
  /\ calls[6].args.iterationId = "IT1"

\* C10 as stated: when several iterations share the maximal startDate, the
\* one selected is the first of them in list order.
TieSelectsFirst ==
  IterationSent =>
    \E i \in 1..Len(iterations) :
      /\ iterations[i].id = calls[6].args.iterationId
      /\ IsMaxDate(i)
      /\ \A j \in 1..(i - 1) : ~IsMaxDate(j)

\* C10 amended: when several iterations share the maximal startDate, the
\* one selected is the last of them in list order.
TieSelectsLast ==
  IterationSent =>
    \E i \in 1..Len(iterations) :
      /\ iterations[i].id = calls[6].args.iterationId
      /\ IsMaxDate(i)
      /\ \A j \in (i + 1)..Len(iterations) : ~IsMaxDate(j)

TieWitness ==
  /\ IterationSent
  /\ Len(iterations) = 2
  /\ iterations[1].startDate = iterations[2].startDate
  /\ calls[6].args.iterationId = "IT2"

\* C11: when the configured field-option name equals none of the fetched
\* option names (exact, case-sensitive), the run does not fail at that
\* point: the column mutation is still invoked, with projectId, the created
\* item id, the field id and an undefined option id.
OptionNotFoundStillSent ==
  (/\ Len(replies) >= 3
   /\ replies[3] = "returned"
   /\ \A i \in 1..Len(options) : options[i].name # FieldOptionName) =>
    /\ Len(calls) >= 4
    /\ calls[4].op = "addIssueToColumn"
    /\ calls[4].args.projectId = projectId
    /\ calls[4].args.itemId = createdItem
    /\ calls[4].args.itemId = replies[2]
    /\ calls[4].args.fieldId \in FieldIds
    /\ calls[4].args.fieldOption = Undefined
    /\ pc = "failed" => Len(replies) >= 4

OptionNotFoundWitness ==
  /\ pc = "awaitColumnMove"
  /\ Len(options) = 1
  /\ options[1].name = "todo"
  /\ calls[4].args.fieldOption = Undefined

\* The operations of the remote API, in the order addToProject calls them.
CallOrder ==
  << {"getProject"}, AddOps, {"getOptionField"}, {"addIssueToColumn"},
     {"getIteration"}, {"addIssueToIteration"} >>

\* The positions of the mutations in that order.
MutationPositions == {2, 4, 6}

\* The calls issued and not yet completed.
Outstanding == Len(calls) - Len(replies)

\* C13: the calls issued are a prefix of the fixed order (project lookup,
\* one add mutation, field lookup, column mutation, iteration lookup,
\* iteration mutation); a call is issued only after the previous one
\* completed successfully, at most one call is outstanding, none is issued
\* twice, and done is reached only after all six succeeded.
CallsInFixedOrder ==
  /\ Len(calls) <= 6
  /\ \A i \in 1..Len(calls) : calls[i].op \in CallOrder[i]
  /\ \A i, j \in 1..Len(calls) : calls[i].op = calls[j].op => i = j
  /\ Outstanding \in {0, 1}
  /\ Outstanding = 1 <=> pc \in Awaiting
  /\ \A i \in 1..(Len(calls) - 1) :
       IF i \in MutationPositions
       THEN replies[i] \in ItemIds
       ELSE replies[i] = "returned"
  /\ pc = "done" =>
       /\ Len(calls) = 6
       /\ Len(replies) = 6
       /\ replies[6] \in ItemIds

AllSixCallsWitness ==
  /\ pc = "done"
  /\ Len(calls) = 6
  /\ calls[2].op = "addProjectV2DraftIssue"

\* C14: when a remote lookup or mutation fails, the run goes straight to
\* failed and issues no further call; the call log only ever grows by the
\* six forward operations, so a mutation that succeeded is never undone.
FailureEndsRunWithoutRollback ==
  [][/\ Len(calls') >= Len(calls)
     /\ \A i \in 1..Len(calls) : calls'[i] = calls[i]
     /\ Len(replies') >= Len(replies)
     /\ \A i \in 1..Len(replies) : replies'[i] = replies[i]
     /\ \A i \in 1..Len(calls') :
          calls'[i].op \in UNION {CallOrder[k] : k \in 1..6}
     /\ (/\ Len(replies') > Len(replies)
         /\ replies'[Len(replies')] \in {"rejected", Null}) =>
          pc' = "failed"
     /\ pc' = "failed" => calls' = calls
     /\ pc = "failed" => UNCHANGED vars]_vars

FailureAfterMutationsWitness ==
  /\ pc = "failed"
  /\ error = "GraphqlError"
  /\ Len(calls) = 5
  /\ replies[2] \in ItemIds
  /\ replies[4] \in ItemIds
  /\ replies[5] = "rejected"

\* C15: in every run at most one add mutation (addProjectV2ItemById or
\* addProjectV2DraftIssue) is invoked, and exactly one in a run that
\* reaches done.
AtMostOneAdd ==
  LET adds == {i \in 1..Len(calls) : calls[i].op \in AddOps}
  IN /\ Cardinality(adds) <= 1
     /\ pc = "done" => Cardinality(adds) = 1

OneAddWitness ==
  /\ pc = "done"
  /\ Invoked("addProjectV2ItemById")
  /\ ~Invoked("addProjectV2DraftIssue")
  /\ issueOwnerName = projectOwnerName

\* C16: when the iteration lookup returns an empty iterations list, the run
\* fails: the iteration mutation is never invoked, and the item added and
\* the single-select value set earlier in the run remain.
EmptyIterationsFails ==
  (Len(replies) >= 5 /\ replies[5] = "returned" /\ iterations = << >>) =>
    /\ pc = "failed"
    /\ error = "TypeError"
    /\ Len(calls) = 5
    /\ ~Invoked("addIssueToIteration")
    /\ calls[2].op \in AddOps /\ replies[2] \in ItemIds
    /\ calls[4].op = "addIssueToColumn" /\ replies[4] \in ItemIds

EmptyIterationsWitness ==
  /\ Len(replies) = 5
  /\ replies[5] = "returned"
  /\ iterations = << >>
  /\ pc = "failed"

\* C17: when the field lookup returns no field node, the run fails there:
\* the column mutation, the iteration lookup and the iteration mutation
\* are never invoked, and the item already added remains.
NoFieldFails ==
  (Len(replies) >= 3 /\ replies[3] = Null) =>
    /\ pc = "failed"
    /\ error = "TypeError"
    /\ Len(calls) = 3
    /\ ~Invoked("addIssueToColumn")
    /\ ~Invoked("getIteration")
    /\ ~Invoked("addIssueToIteration")
    /\ calls[2].op \in AddOps /\ replies[2] \in ItemIds
    /\ output = replies[2]

NoFieldWitness ==
  /\ Len(replies) = 3
  /\ replies[3] = Null
  /\ pc = "failed"
  /\ calls[2].op = "addProjectV2ItemById"

\* C18: both field mutations target the item the add mutation returned,
\* whatever item id the column mutation returned, and every call after the
\* project lookup carries the project id read from that lookup.
SameItemAndProject ==
  /\ Len(calls) >= 4 => calls[4].args.itemId = replies[2]
  /\ Len(calls) >= 6 => calls[6].args.itemId = replies[2]
  /\ \A i \in 2..Len(calls) : calls[i].args.projectId = projectId

SameItemWitness ==
  /\ Len(calls) = 6
  /\ projectId = "P2"
  /\ replies[2] = "I1"
  /\ replies[4] = "I2"
  /\ calls[6].args.itemId = "I1"

\* C19: the label filter is evaluated before the project URL is validated:
\* a run whose content fails the filter ends in skipped even with an
\* invalid project-url, and a configuration error occurs only in runs whose
\* filter passed.
FilterBeforeUrl ==
  /\ (/\ FilterDecided
      /\ ~LabelFilterPasses(labelOperator, labeled, issueLabels)
      /\ ~urlParse(projectUrl).matched) =>
       pc = "skipped" /\ error = "none"
  /\ error \in {"InvalidProjectUrl", "UnsupportedOwnerType"} =>
       LabelFilterPasses(labelOperator, labeled, issueLabels)

SkipWithInvalidUrlWitness ==
  /\ pc = "skipped"
  /\ projectUrl = "https://github.com/orgs/acme/project/1"
  /\ ~urlParse(projectUrl).matched

\* C20: given that every remote call eventually returns or is rejected,
\* every run eventually reaches one of skipped, done, failed, stays in it,
\* and issues no call and publishes no output afterwards.
RunTerminates ==
  /\ <>(pc \in Terminal)
  /\ [][(pc \in Terminal) =>
          (pc' = pc /\ calls' = calls /\ replies' = replies
           /\ output' = output)]_vars

EachTerminalWitness ==
  /\ pc = "done"
  /\ error = "none"
  /\ Len(replies) = 6
  /\ output = replies[6]
  /\ ~ENABLED Next

(***************************************************************************)
(* mustGetOwnerTypeQuery on its own: called once on an arbitrary owner     *)
(* kind, it returns or throws.                                             *)
(***************************************************************************)

\* The strings of at most n characters of OwnerTypeChars.
RECURSIVE StringsUpTo(_)
StringsUpTo(n) ==
  IF n = 0 THEN {""}
  ELSE LET shorter == StringsUpTo(n - 1)
       IN shorter \cup {s \o c : s \in shorter, c \in OwnerTypeChars}

\* The arguments of mustGetOwnerTypeQuery(ownerType?: string).
OwnerTypes == StringsUpTo(MaxOwnerTypeLen) \cup {Undefined}

InitOwnerType ==
  /\ projectUrl = "https://github.com/orgs/acme/projects/12"
  /\ labeledInput = ""
  /\ labelOperatorInput = ""
  /\ issueLabelNames = << >>
  /\ issueOwnerName = "acme"
  /\ pc = "mustGetOwnerTypeQuery"
  /\ error = "none"
  /\ ownerType \in OwnerTypes
  /\ ownerTypeQuery = Undefined
  /\ projectOwnerName = Undefined
  /\ projectId = Undefined
  /\ createdItem = ""
  /\ options = << >>
  /\ iterations = << >>
  /\ output = Undefined
  /\ calls = << >>
  /\ replies = << >>

\* const ownerTypeQuery = mustGetOwnerTypeQuery(ownerType)
CallMustGetOwnerTypeQuery ==
  /\ pc = "mustGetOwnerTypeQuery"
  /\ LET query == mustGetOwnerTypeQuery(ownerType)
     IN IF query = Null
        THEN /\ Throw("UnsupportedOwnerType")
             /\ UNCHANGED ownerTypeQuery
        ELSE /\ pc' = "returned"
             /\ error' = error
             /\ ownerTypeQuery' = query
  /\ UNCHANGED <<inputs, ownerType, projectOwnerName, projectId, createdItem,
                 options, iterations, output, calls, replies>>

NextOwnerType == CallMustGetOwnerTypeQuery

SpecOwnerType == InitOwnerType /\ [][NextOwnerType]_vars

\* C12: mustGetOwnerTypeQuery returns "organization" for "orgs", "user" for
\* "users", and throws for every other argument, an absent one included.
OwnerTypeQueryTable ==
  pc # "mustGetOwnerTypeQuery" =>
    CASE ownerType = "orgs" ->
           pc = "returned" /\ ownerTypeQuery = "organization"
      [] ownerType = "users" ->
           pc = "returned" /\ ownerTypeQuery = "user"
      [] OTHER ->
           /\ pc = "failed"
           /\ error = "UnsupportedOwnerType"
           /\ ownerTypeQuery = Undefined

OwnerTypeAbsentWitness ==
  /\ pc = "failed"
  /\ error = "UnsupportedOwnerType"
  /\ ownerType = Undefined

====
